---- MODULE Spec2Model ----
(***************************************************************************)
(* Model of the pharmacy management application (src/app.py,               *)
(* src/models.py): the relational store, the login and teacher gates, the  *)
(* write handlers, the prescription listing and the two calculators.       *)
(*                                                                         *)
(* Every table is a sequence indexed by the row's primary key: SQLite      *)
(* hands out rowid = max(rowid) + 1 and no handler deletes a row, so the   *)
(* row with id i is the i-th element.                                      *)
(***************************************************************************)
EXTENDS Integers, Sequences, FiniteSets, TLC

VARIABLES Patient, Medication, Prescription, PrescriptionItem, ClinicalNote,
          request, response

db == <<Patient, Medication, Prescription, PrescriptionItem, ClinicalNote>>
vars == <<Patient, Medication, Prescription, PrescriptionItem, ClinicalNote,
          request, response>>

(***************************************************************************)
(* Bounds of the model.                                                    *)
(***************************************************************************)
\* Rows the store may hold, all tables together.
MaxRows == 3

(***************************************************************************)
(* Users.  initialize_first_user creates the teacher "admin"; no handler   *)
(* adds or changes a user, so the table is fixed.  Roles are the two that  *)
(* models.py documents.  Anonymous is a request without a logged-in user.  *)
(***************************************************************************)
User == <<[username |-> "admin", role |-> "teacher"],
          [username |-> "student1", role |-> "student"],
          [username |-> "student2", role |-> "student"]>>
UserIds == DOMAIN User
Anonymous == 0
Clients == UserIds \cup {Anonymous}

is_authenticated(u) == u \in UserIds
RoleOf(u) == User[u].role

(***************************************************************************)
(* Form values.  request.form.get returns None for a missing field and a   *)
(* string otherwise.                                                       *)
(***************************************************************************)
None == "<None>"

\* int(s): TypeError on None, ValueError on a non-numeric string.
IntError(s) == IF s = None THEN "TypeError"
               ELSE IF s \in {"1", "2", "3"} THEN "none"
               ELSE "ValueError"
IntValue(s) == CASE s = "1" -> 1 [] s = "2" -> 2 [] s = "3" -> 3 [] OTHER -> 0

\* datetime.strptime(s, '%Y-%m-%d')
StrptimeError(s) == IF s = None THEN "TypeError"
                    ELSE IF s = "2000-01-31" THEN "none"
                    ELSE "ValueError"

(***************************************************************************)
(* Responses.  code/target are the HTTP status and the endpoint redirected *)
(* to (302) or the template rendered (200); flash is the flashed message;  *)
(* body is the list handed to the listing template or the JSON answer of a *)
(* calculator; raised, rollback, ran and commits record the exception      *)
(* raised in the handler, whether the handler called                       *)
(* db.session.rollback(), whether the handler body was entered, and how    *)
(* many of its db.session.commit() calls returned.                         *)
(***************************************************************************)
NoFlash == [category |-> "none", message |-> "", detail |-> ""]
Flash(c, m, d) == [category |-> c, message |-> m, detail |-> d]

Resp(code, target, flash, body, raised, rollback, ran) ==
    [code |-> code, target |-> target, flash |-> flash, body |-> body,
     raised |-> raised, rollback |-> rollback, ran |-> ran, commits |-> 0]
Committed(resp, n) == [resp EXCEPT !.commits = n]

Idle == Resp(0, "", NoFlash, <<>>, "none", FALSE, FALSE)

\* flask_login.login_required: unauthenticated requests go to login_view.
Unauthorized == Resp(302, "login", NoFlash, <<>>, "none", FALSE, FALSE)

\* Mutant: the gate answers 403 Forbidden instead of redirecting.
TeacherOnly_Forbidden ==
    Resp(403, "", Flash("danger", "You need to be a teacher to access this page.", ""),
         <<>>, "none", FALSE, FALSE)

\* teacher_required: flash and redirect to the dashboard.
TeacherOnly ==
    Resp(302, "dashboard",
         Flash("danger", "You need to be a teacher to access this page.", ""),
         <<>>, "none", FALSE, FALSE)

\* Mutant: the gate checks the login and forgets the role.
teacher_required_LoginOnly(u) == is_authenticated(u)

teacher_required(u) == is_authenticated(u) /\ RoleOf(u) = "teacher"

Redirect(target, flash) == Resp(302, target, flash, <<>>, "none", FALSE, TRUE)
Render(template, flash, raised, rollback) ==
    Resp(200, template, flash, <<>>, raised, rollback, TRUE)
\* An exception that leaves the handler: Flask answers 404 for NotFound and
\* 500 for anything else; nothing is flashed and the handler rolls nothing back.
Propagate(exc) ==
    Resp(IF exc = "NotFound" THEN 404 ELSE 500, "", NoFlash, <<>>, exc, FALSE, TRUE)

\* db.session.commit(): fails with OperationalError when the store is faulty.
CommitError(fault) == IF fault THEN "OperationalError" ELSE "none"

Init ==
    /\ Patient = <<>>
    /\ Medication = <<>>
    /\ Prescription = <<>>
    /\ PrescriptionItem = <<>>
    /\ ClinicalNote = <<>>
    /\ request = [op |-> "none", user |-> Anonymous, id |-> 0]
    /\ response = Idle

\* Rows in the store.
Rows == Len(Patient) + Len(Medication) + Len(Prescription)
            + Len(PrescriptionItem) + Len(ClinicalNote)

Req(op, u, id) == [op |-> op, user |-> u, id |-> id]

(***************************************************************************)
(* /patient/add                                                            *)
(***************************************************************************)
PatientForm(pid, first, dob) ==
    [patient_id |-> pid, first_name |-> first, last_name |-> "Lee", dob |-> dob,
     gender |-> "female"]

\* Two complete forms, and forms with one field missing or malformed.
PatientForms ==
    {PatientForm("P1", "Ann", "2000-01-31"), PatientForm("P2", "Ann", "2000-01-31"),
     PatientForm(None, "Ann", "2000-01-31"), PatientForm("P1", None, "2000-01-31"),
     PatientForm("P1", "Ann", None), PatientForm("P1", "Ann", "31/01/2000")}

\* The first exception of the try block of add_patient, "none" if it commits.
AddPatientError(form, fault) ==
    IF StrptimeError(form.dob) # "none" THEN StrptimeError(form.dob)
    ELSE IF \/ None \in {form.patient_id, form.first_name, form.last_name, form.gender}
            \/ \E i \in DOMAIN Patient : Patient[i].patient_id = form.patient_id
         THEN "IntegrityError"
    ELSE CommitError(fault)

add_patient(u, method, form, fault) ==
    /\ request' = Req("add_patient", u, 0)
    /\ IF ~is_authenticated(u)
       THEN response' = Unauthorized /\ UNCHANGED db
       ELSE IF ~teacher_required(u)
       THEN response' = TeacherOnly /\ UNCHANGED db
       ELSE IF method # "POST"
       THEN response' = Render("add_patient.html", NoFlash, "none", FALSE) /\ UNCHANGED db
       ELSE LET exc == AddPatientError(form, fault) IN
            IF exc = "none"
            THEN /\ Rows < MaxRows
                 /\ Patient' = Append(Patient,
                        [patient_id |-> form.patient_id, first_name |-> form.first_name,
                         last_name |-> form.last_name, dob |-> form.dob,
                         gender |-> form.gender])
                 /\ response' = Committed(Redirect("patients",
                        Flash("success", "Patient added successfully", "")), 1)
                 /\ UNCHANGED <<Medication, Prescription, PrescriptionItem, ClinicalNote>>
            ELSE /\ response' = Render("add_patient.html",
                        Flash("danger", "Error adding patient", exc), exc, TRUE)
                 /\ UNCHANGED db

(***************************************************************************)
(* /medication/add                                                         *)
(***************************************************************************)
MedicationForm(name, quantity, reorder_level) ==
    [name |-> name, quantity |-> quantity, reorder_level |-> reorder_level]

\* A complete form, and forms with one field missing or malformed.
MedicationForms ==
    {MedicationForm("Aspirin", "3", "1"), MedicationForm(None, "3", "1"),
     MedicationForm("Aspirin", None, "1"), MedicationForm("Aspirin", "many", "1"),
     MedicationForm("Aspirin", "3", "few")}

AddMedicationError(form, fault) ==
    IF IntError(form.quantity) # "none" THEN IntError(form.quantity)
    ELSE IF IntError(form.reorder_level) # "none" THEN IntError(form.reorder_level)
    ELSE IF form.name = None THEN "IntegrityError"
    ELSE CommitError(fault)

add_medication(u, method, form, fault) ==
    /\ request' = Req("add_medication", u, 0)
    /\ IF ~is_authenticated(u)
       THEN response' = Unauthorized /\ UNCHANGED db
       ELSE IF ~teacher_required(u)
       THEN response' = TeacherOnly /\ UNCHANGED db
       ELSE IF method # "POST"
       THEN response' = Render("add_medication.html", NoFlash, "none", FALSE) /\ UNCHANGED db
       ELSE LET exc == AddMedicationError(form, fault) IN
            IF exc = "none"
            THEN /\ Rows < MaxRows
                 /\ Medication' = Append(Medication,
                        [name |-> form.name, quantity |-> IntValue(form.quantity),
                         reorder_level |-> IntValue(form.reorder_level)])
                 /\ response' = Committed(Redirect("medications",
                        Flash("success", "Medication added successfully", "")), 1)
                 /\ UNCHANGED <<Patient, Prescription, PrescriptionItem, ClinicalNote>>
            ELSE /\ response' = Render("add_medication.html",
                        Flash("danger", "Error adding medication", exc), exc, TRUE)
                 /\ UNCHANGED db

(***************************************************************************)
(* /prescription/create                                                    *)
(***************************************************************************)
\* request.form.getlist returns one list per field.  dosage[], frequency[]
\* and duration[] are drawn with one length n.
\* medication_id[] as sent: no entry, integers, or a non-integer entry.
MedicationIdLists == {<<>>, <<"1">>, <<"x">>, <<"1", "1">>, <<"1", "x">>}

PrescriptionForm(p, m, n) ==
    [patient_id |-> p, instructions |-> "with food", medication_ids |-> m,
     dosages |-> [i \in 1..n |-> "1 tablet"],
     frequencies |-> [i \in 1..n |-> "daily"],
     durations |-> [i \in 1..n |-> "7 days"]]

\* The lists are not read when patient_id does not parse.
PrescriptionForms ==
    {PrescriptionForm(p, <<>>, 0) : p \in {None, "one"}}
      \cup {PrescriptionForm("1", m, 2) : m \in MedicationIdLists}
      \cup {PrescriptionForm("1", <<"1", "1">>, 1)}

Min(a, b) == IF a < b THEN a ELSE b

\* zip(medication_ids, dosages, frequencies, durations): as long as the shortest.
ZipLen(form) ==
    Min(Min(Len(form.medication_ids), Len(form.dosages)),
        Min(Len(form.frequencies), Len(form.durations)))

\* Mutant: every new prescription waits for approval, whoever wrote it.
NewStatus_AlwaysPending(u) == "pending"

\* status='pending' if current_user.role == 'student' else 'approved'
NewStatus(u) == IF RoleOf(u) = "student" THEN "pending" ELSE "approved"

\* The Prescription row of the first commit; date_prescribed defaults to
\* utcnow, kept as the logical time of the insertion.
NewPrescription(u, form) ==
    [patient_id |-> IntValue(form.patient_id), prescriber_id |-> u,
     date_prescribed |-> Len(Prescription) + 1, status |-> NewStatus(u),
     instructions |-> form.instructions]

\* The PrescriptionItem the loop builds from the i-th entries, for parent pid.
NewItem(pid, form, i) ==
    [prescription_id |-> pid, medication_id |-> IntValue(form.medication_ids[i]),
     dosage |-> form.dosages[i], frequency |-> form.frequencies[i],
     duration |-> form.durations[i]]

\* The first entry whose medication id int() rejects; ZipLen + 1 if none.
FirstBad(form) ==
    LET bad == {i \in 1..ZipLen(form) : IntError(form.medication_ids[i]) # "none"}
    IN  IF bad = {} THEN ZipLen(form) + 1
        ELSE CHOOSE i \in bad : \A j \in bad : i <= j

\* The items db.session.add has put in the session when the loop ends or raises.
PendingItems(pid, form) == [i \in 1..(FirstBad(form) - 1) |-> NewItem(pid, form, i)]

\* The first exception before the first commit returns.
FirstCommitError(form, fault) ==
    IF IntError(form.patient_id) # "none" THEN IntError(form.patient_id)
    ELSE CommitError(fault = 1)

\* The first exception of the loop (int(med_id)) or of the second commit.
SecondCommitError(form, fault) ==
    IF FirstBad(form) <= ZipLen(form)
    THEN IntError(form.medication_ids[FirstBad(form)])
    ELSE CommitError(fault = 2)

\* Mutant: the items added before the failure are flushed and stay.
Rollback_KeepsPending(stored, pending) == stored \o pending

\* db.session.rollback(): the objects pending in the session are discarded,
\* what earlier commits stored stays.
Rollback(stored, pending) == stored

create_prescription(u, method, form, fault) ==
    /\ request' = Req("create_prescription", u, 0)
    /\ UNCHANGED <<Patient, Medication, ClinicalNote>>
    /\ IF ~is_authenticated(u)
       THEN response' = Unauthorized /\ UNCHANGED <<Prescription, PrescriptionItem>>
       ELSE IF method # "POST"
       THEN /\ response' = Render("create_prescription.html", NoFlash, "none", FALSE)
            /\ UNCHANGED <<Prescription, PrescriptionItem>>
       ELSE LET e1 == FirstCommitError(form, fault)
                e2 == SecondCommitError(form, fault)
                pending == PendingItems(Len(Prescription) + 1, form)
            IN  IF e1 # "none"
                THEN /\ response' = Render("create_prescription.html",
                            Flash("danger", "Error creating prescription", e1), e1, TRUE)
                     /\ UNCHANGED <<Prescription, PrescriptionItem>>
                ELSE /\ Rows + 1 + (IF e2 = "none" THEN Len(pending) ELSE 0) <= MaxRows
                     /\ Prescription' = Append(Prescription, NewPrescription(u, form))
                     /\ IF e2 # "none"
                        THEN /\ response' = Committed(Render("create_prescription.html",
                                    Flash("danger", "Error creating prescription", e2),
                                    e2, TRUE), 1)
                             /\ PrescriptionItem' = Rollback(PrescriptionItem, pending)
                        ELSE /\ PrescriptionItem' = PrescriptionItem \o pending
                             /\ response' = Committed(Redirect("prescriptions",
                                    Flash("success", "Prescription created successfully", "")),
                                    2)

(***************************************************************************)
(* /prescription/approve/<id>                                              *)
(***************************************************************************)
\* Mutant: the update has no WHERE clause and approves every row.
Approved_EveryRow(table, id) ==
    [i \in DOMAIN table |-> [table[i] EXCEPT !.status = "approved"]]

\* Mutant: the handler toggles the status instead of setting it.
Approved_Toggle(table, id) ==
    [table EXCEPT ![id].status = IF @ = "approved" THEN "pending" ELSE "approved"]

\* prescription.status = 'approved' on the row with primary key id.
Approved(table, id) == [table EXCEPT ![id].status = "approved"]

\* The exception that leaves approve_prescription: get_or_404, then commit.
ApproveError(id, fault) ==
    IF id \notin DOMAIN Prescription THEN "NotFound" ELSE CommitError(fault)

approve_prescription(u, id, fault) ==
    /\ request' = Req("approve_prescription", u, id)
    /\ UNCHANGED <<Patient, Medication, PrescriptionItem, ClinicalNote>>
    /\ IF ~is_authenticated(u)
       THEN response' = Unauthorized /\ UNCHANGED Prescription
       ELSE IF ~teacher_required(u)
       THEN response' = TeacherOnly /\ UNCHANGED Prescription
       ELSE LET exc == ApproveError(id, fault) IN
            IF exc # "none"
            THEN response' = Propagate(exc) /\ UNCHANGED Prescription
            ELSE /\ Prescription' = Approved(Prescription, id)
                 /\ response' = Committed(Redirect("prescriptions",
                        Flash("success", "Prescription approved", "")), 1)

(***************************************************************************)
(* /patient/<patient_id>/add_note                                          *)
(***************************************************************************)
NoteForms == [note_type : {"progress"}, content : {None, "stable"}]

AddNoteError(form, fault) ==
    IF form.content = None THEN "IntegrityError" ELSE CommitError(fault)

add_clinical_note(u, patient_id, form, fault) ==
    /\ request' = Req("add_clinical_note", u, patient_id)
    /\ UNCHANGED <<Patient, Medication, Prescription, PrescriptionItem>>
    /\ IF ~is_authenticated(u)
       THEN response' = Unauthorized /\ UNCHANGED ClinicalNote
       ELSE LET exc == AddNoteError(form, fault) IN
            IF exc = "none"
            THEN /\ Rows < MaxRows
                 /\ ClinicalNote' = Append(ClinicalNote,
                        [patient_id |-> patient_id, author_id |-> u,
                         note_type |-> form.note_type, content |-> form.content])
                 /\ response' = Committed(Redirect("view_patient",
                        Flash("success", "Clinical note added successfully", "")), 1)
            ELSE /\ response' = Resp(302, "view_patient",
                        Flash("danger", "Error adding note", exc), <<>>, exc, TRUE, TRUE)
                 /\ UNCHANGED ClinicalNote

(***************************************************************************)
(* /prescriptions                                                          *)
(***************************************************************************)
\* The ids among 1..n that the query keeps, newest first
\* (order_by(date_prescribed.desc()): rows are stored in the order of their
\* date_prescribed).
RECURSIVE NewestFirst(_, _)
NewestFirst(kept, n) ==
    IF n = 0 THEN <<>>
    ELSE (IF n \in kept THEN <<n>> ELSE <<>>) \o NewestFirst(kept, n - 1)

\* Mutant: the listing forgets the filter and shows every prescription.
prescription_list_Unfiltered(u) ==
    NewestFirst(DOMAIN Prescription, Len(Prescription))

\* Prescription.query for a teacher, filter_by(prescriber_id=current_user.id)
\* for everybody else.
prescription_list(u) ==
    IF RoleOf(u) = "teacher"
    THEN NewestFirst(DOMAIN Prescription, Len(Prescription))
    ELSE NewestFirst({i \in DOMAIN Prescription : Prescription[i].prescriber_id = u},
                     Len(Prescription))

prescriptions(u) ==
    /\ request' = Req("prescriptions", u, 0)
    /\ UNCHANGED db
    /\ IF ~is_authenticated(u)
       THEN response' = Unauthorized
       ELSE response' = Resp(200, "prescriptions.html", NoFlash, prescription_list(u),
                             "none", FALSE, TRUE)

(***************************************************************************)
(* Calculators.  Python floats are IEEE-754 doubles: every operation       *)
(* rounds, so a computed value is the exact quotient num/den moved by a    *)
(* rounding error far smaller than any gap the inputs below can leave to a *)
(* threshold or to a rounding tie.  A value is kept as the exact quotient  *)
(* with the sign err of that error, which decides a comparison only when   *)
(* the exact quotient sits on the threshold.  The sign depends on the      *)
(* operands and on the platform's pow, so it is left open.  Quotients are   *)
(* kept in lowest terms.                                                   *)
(***************************************************************************)
RECURSIVE Gcd(_, _)
Gcd(a, b) == IF b = 0 THEN a ELSE Gcd(b, a % b)
Abs(a) == IF a < 0 THEN -a ELSE a

Float(num, den, err) ==
    LET g == Gcd(Abs(num), den)
    IN  [num |-> num \div g, den |-> den \div g, err |-> err]
RoundingErrors == {-1, 0, 1}

\* x < a/b and a/b <= x for a computed value x (x.den > 0, b > 0).
Lt(x, a, b) == \/ x.num * b < a * x.den
               \/ x.num * b = a * x.den /\ x.err < 0
Ge(x, a, b) == ~Lt(x, a, b)

\* round(x, 2), in hundredths: the nearest hundredth of the value, and on an
\* exact tie the even one.
Round2(x) ==
    LET n == 100 * x.num
        q == n \div x.den
        r == n % x.den
    IN  IF 2 * r < x.den THEN q
        ELSE IF 2 * r > x.den THEN q + 1
        ELSE IF x.err > 0 THEN q + 1
        ELSE IF x.err < 0 THEN q
        ELSE IF q % 2 = 0 THEN q ELSE q + 1

\* jsonify({... 'status': 'success'}); value is the handler's unrounded float.
JsonOk(result, category, value) ==
    Resp(200, "json", NoFlash,
         [status |-> "success", result |-> result, category |-> category,
          message |-> "", value |-> value],
         "none", FALSE, TRUE)
\* jsonify({'status': 'error', 'message': str(e)})
JsonError(exc) ==
    Resp(200, "json", NoFlash,
         [status |-> "error", result |-> 0, category |-> "", message |-> exc,
          value |-> Float(0, 1, 0)],
         exc, FALSE, TRUE)

\* Body weights in kg and heights in cm, as JSON numbers.
Weights == 40..120
Heights == {0} \cup 150..200

\* bmi = weight / ((height/100) ** 2)
Bmi(weight, height, err) == Float(weight * 10000, height * height, err)

\* Mutant: the category is chosen on the rounded result.
BmiCategory_OnRounded(bmi) ==
    LET shown == Float(Round2(bmi), 100, 0)
    IN  IF Lt(shown, 185, 10) THEN "Underweight"
        ELSE IF Lt(shown, 25, 1) THEN "Normal weight"
        ELSE IF Lt(shown, 30, 1) THEN "Overweight"
        ELSE "Obese"

\* The if/elif chain of calculate_bmi.
BmiCategory(bmi) ==
    IF Lt(bmi, 185, 10) THEN "Underweight"
    ELSE IF Ge(bmi, 185, 10) /\ Lt(bmi, 25, 1) THEN "Normal weight"
    ELSE IF Ge(bmi, 25, 1) /\ Lt(bmi, 30, 1) THEN "Overweight"
    ELSE "Obese"

calculate_bmi(err) ==
    /\ request.op = "calculate_bmi"
    /\ response = Idle
    /\ UNCHANGED <<db, request>>
    /\ IF ~is_authenticated(request.user)
       THEN response' = Unauthorized
       ELSE IF request.data.height = 0
       THEN response' = JsonError("ZeroDivisionError")
       ELSE LET bmi == Bmi(request.data.weight, request.data.height, err)
            IN  response' = JsonOk(Round2(bmi), BmiCategory(bmi), bmi)

\* Ages in years, serum creatinine in tenths of mg/dL, and the gender field.
Ages == {30, 40, 65, 140, 150}
CcrWeights == {60, 72, 80}
Creatinines == {0, 8, 10, 12}
Genders == {"male", "female", "other"}

\* ((140 - age) * weight) / (72 * scr), times 0.85 (17/20) unless
\* gender == 'male'; scr10 is scr in tenths.
Ccr(age, weight, scr10, gender, err) ==
    IF gender = "male"
    THEN Float((140 - age) * weight * 10, 72 * scr10, err)
    ELSE Float(17 * (140 - age) * weight * 10, 20 * 72 * scr10, err)

calculate_ccr(err) ==
    /\ request.op = "calculate_ccr"
    /\ response = Idle
    /\ UNCHANGED <<db, request>>
    /\ IF ~is_authenticated(request.user)
       THEN response' = Unauthorized
       ELSE IF request.data.scr = 0
       THEN response' = JsonError("ZeroDivisionError")
       ELSE LET ccr == Ccr(request.data.age, request.data.weight, request.data.scr,
                           request.data.gender, err)
            IN  response' = JsonOk(Round2(ccr), "", ccr)

\* The calculator requests: each starts from one request, and the handler
\* answers it.
CalcRequests ==
    {[op |-> "calculate_bmi", user |-> u, id |-> 0,
      data |-> [weight |-> w, height |-> h]] :
        u \in {Anonymous, 2}, w \in Weights, h \in Heights}
      \cup
    {[op |-> "calculate_ccr", user |-> u, id |-> 0,
      data |-> [age |-> a, weight |-> w, scr |-> c, gender |-> g]] :
        u \in {Anonymous, 2}, a \in Ages, w \in CcrWeights, c \in Creatinines, g \in Genders}

InitCalc ==
    /\ Patient = <<>>
    /\ Medication = <<>>
    /\ Prescription = <<>>
    /\ PrescriptionItem = <<>>
    /\ ClinicalNote = <<>>
    /\ request \in CalcRequests
    /\ response = Idle

NextCalc ==
    \/ \E err \in RoundingErrors : calculate_bmi(err)
    \/ \E err \in RoundingErrors : calculate_ccr(err)

SpecCalc == InitCalc /\ [][NextCalc]_vars

Methods == {"GET", "POST"}
\* Ids a client may put in a URL: the stored rows and one that does not exist.
UrlIds == 1..(Len(Prescription) + 1)
\* A form reaches the handler body only with a POST that passes the gates.
Posted(method, ok, Forms) ==
    IF method = "POST" /\ ok THEN Forms ELSE {CHOOSE f \in Forms : TRUE}

\* The requests of the application over a store whose commits succeed.
Next ==
    \/ \E u \in Clients, method \in Methods :
          \E form \in Posted(method, teacher_required(u), PatientForms) :
             add_patient(u, method, form, FALSE)
    \/ \E u \in Clients, method \in Methods :
          \E form \in Posted(method, teacher_required(u), MedicationForms) :
             add_medication(u, method, form, FALSE)
    \/ \E u \in Clients, method \in Methods :
          \E form \in Posted(method, is_authenticated(u), PrescriptionForms) :
             create_prescription(u, method, form, 0)
    \/ \E u \in Clients, id \in UrlIds : approve_prescription(u, id, FALSE)
    \/ \E u \in Clients, form \in NoteForms : add_clinical_note(u, 1, form, FALSE)
    \/ \E u \in Clients : prescriptions(u)

Spec == Init /\ [][Next]_vars

\* A commit may fail only in a request that reaches it.
Faults(reached, S) == IF reached THEN S ELSE {CHOOSE f \in S : TRUE}
\* The commits a prescription form reaches: none, the first, or both.
FormFaults(form) ==
    IF FirstCommitError(form, 0) # "none" THEN {0}
    ELSE IF SecondCommitError(form, 0) # "none" THEN {0, 1}
    ELSE {0, 1, 2}

\* The same requests over a store whose commits may fail (a locked or full
\* database file): fault names the commit of the request that raises.
NextFault ==
    \/ \E u \in Clients, method \in Methods :
          \E form \in Posted(method, teacher_required(u), PatientForms) :
             \E fault \in Faults(/\ method = "POST" /\ teacher_required(u)
                                 /\ AddPatientError(form, FALSE) = "none", BOOLEAN) :
                add_patient(u, method, form, fault)
    \/ \E u \in Clients, method \in Methods :
          \E form \in Posted(method, teacher_required(u), MedicationForms) :
             \E fault \in Faults(/\ method = "POST" /\ teacher_required(u)
                                 /\ AddMedicationError(form, FALSE) = "none", BOOLEAN) :
                add_medication(u, method, form, fault)
    \/ \E u \in Clients, method \in Methods :
          \E form \in Posted(method, is_authenticated(u), PrescriptionForms) :
             \E fault \in Faults(method = "POST" /\ is_authenticated(u), FormFaults(form)) :
                create_prescription(u, method, form, fault)
    \/ \E u \in Clients, id \in UrlIds :
          \E fault \in Faults(teacher_required(u) /\ id \in DOMAIN Prescription, BOOLEAN) :
             approve_prescription(u, id, fault)
    \/ \E u \in Clients, form \in NoteForms :
          \E fault \in Faults(/\ is_authenticated(u)
                              /\ AddNoteError(form, FALSE) = "none", BOOLEAN) :
             add_clinical_note(u, 1, form, fault)
    \/ \E u \in Clients : prescriptions(u)

SpecFault == Init /\ [][NextFault]_vars

(***************************************************************************)
(* Properties                                                              *)
(***************************************************************************)
Range(seq) == {seq[i] : i \in DOMAIN seq}
IsStudent(u) == is_authenticated(u) /\ RoleOf(u) = "student"
IsTeacher(u) == is_authenticated(u) /\ RoleOf(u) = "teacher"

\* C1: every Prescription row that a step adds was added by
\* create_prescription, and its status is 'pending' when the authenticated
\* prescriber is a student and 'approved' when the prescriber is a teacher,
\* whatever the form holds and whatever the store holds.
C1_StatusFromRole ==
    [][\A i \in DOMAIN Prescription' \ DOMAIN Prescription :
          /\ request'.op = "create_prescription"
          /\ IsStudent(request'.user) => Prescription'[i].status = "pending"
          /\ IsTeacher(request'.user) => Prescription'[i].status = "approved"]_vars

\* C1 witness: a teacher has just created an approved prescription in a store
\* that holds a student's pending one.
C1_Witness ==
    /\ request.op = "create_prescription"
    /\ IsTeacher(request.user)
    /\ response.commits = 2
    /\ Len(Prescription) = 2
    /\ IsStudent(Prescription[1].prescriber_id) /\ Prescription[1].status = "pending"
    /\ Prescription[2].prescriber_id = request.user /\ Prescription[2].status = "approved"

\* C2: approve_prescription(id) by a teacher on a stored id leaves row id
\* approved and every other field of it as it was, changes no other row of any
\* table, and changes nothing at all when row id is approved already (a second
\* invocation yields the state of the first).
C2_ApproveSetsApproved ==
    [][(/\ request'.op = "approve_prescription"
        /\ IsTeacher(request'.user)
        /\ request'.id \in DOMAIN Prescription)
       => /\ DOMAIN Prescription' = DOMAIN Prescription
          /\ Prescription'[request'.id].status = "approved"
          /\ \A i \in DOMAIN Prescription :
                /\ i # request'.id => Prescription'[i] = Prescription[i]
                /\ Prescription'[i].patient_id = Prescription[i].patient_id
                /\ Prescription'[i].prescriber_id = Prescription[i].prescriber_id
                /\ Prescription'[i].date_prescribed = Prescription[i].date_prescribed
                /\ Prescription'[i].instructions = Prescription[i].instructions
          /\ UNCHANGED <<Patient, Medication, PrescriptionItem, ClinicalNote>>
          /\ Prescription[request'.id].status = "approved" => UNCHANGED db]_vars

\* C2 witness: a teacher has approved a student's prescription while another
\* student's prescription is still pending.
C2_Witness ==
    /\ request.op = "approve_prescription"
    /\ IsTeacher(request.user)
    /\ response.commits = 1
    /\ Len(Prescription) = 2
    /\ \E i, j \in DOMAIN Prescription :
          /\ i = request.id /\ j # i
          /\ IsStudent(Prescription[i].prescriber_id) /\ Prescription[i].status = "approved"
          /\ IsStudent(Prescription[j].prescriber_id) /\ Prescription[j].status = "pending"

\* C3: add_patient, add_medication and approve_prescription requested by an
\* authenticated user who is no teacher answer with a redirect to the
\* dashboard (302, not 403), do not enter the handler body and leave the store
\* as it was.
TeacherRoutes == {"add_patient", "add_medication", "approve_prescription"}
C3_NonTeacherRedirected ==
    [][(/\ request'.op \in TeacherRoutes
        /\ is_authenticated(request'.user)
        /\ RoleOf(request'.user) # "teacher")
       => /\ response'.code = 302
          /\ response'.target = "dashboard"
          /\ ~response'.ran
          /\ UNCHANGED db]_vars

\* C3 witness: a student asked to approve a stored pending prescription and
\* was sent to the dashboard, in a store that holds a patient.
C3_Witness ==
    /\ request.op = "approve_prescription"
    /\ IsStudent(request.user)
    /\ request.id \in DOMAIN Prescription
    /\ Prescription[request.id].status = "pending"
    /\ Len(Patient) = 1
    /\ response.target = "dashboard"

\* C4: every stored status is 'pending' or 'approved', and no step takes an
\* approved prescription back: the only change of a status is
\* pending -> approved.
C4_StatusDomain ==
    /\ [](\A i \in DOMAIN Prescription : Prescription[i].status \in {"pending", "approved"})
    /\ [][\A i \in DOMAIN Prescription :
            /\ i \in DOMAIN Prescription'
            /\ Prescription[i].status = "approved" => Prescription'[i].status = "approved"]_vars

\* C4 witness: a prescription written by a student is approved, and requests
\* made after its approval have left it so.
C4_Witness ==
    /\ request.op = "create_prescription"
    /\ Len(Prescription) = 2
    /\ IsStudent(Prescription[1].prescriber_id) /\ Prescription[1].status = "approved"
    /\ Prescription[2].status = "pending"

\* C5: the listing answers a teacher with every stored prescription and a
\* student with exactly the prescriptions whose prescriber_id is that student,
\* each once.
C5_ListingScoped ==
    (request.op = "prescriptions" /\ is_authenticated(request.user))
    => /\ Len(response.body) = Cardinality(Range(response.body))
       /\ IsTeacher(request.user) => Range(response.body) = DOMAIN Prescription
       /\ IsStudent(request.user) =>
             Range(response.body) =
                {i \in DOMAIN Prescription : Prescription[i].prescriber_id = request.user}

\* C5 witness: a student lists a store that holds one prescription of that
\* student and one of somebody else, and sees only the own one.
C5_Witness ==
    /\ request.op = "prescriptions"
    /\ IsStudent(request.user)
    /\ Len(response.body) = 1
    /\ Len(Prescription) = 2
    /\ \E i \in DOMAIN Prescription : Prescription[i].prescriber_id # request.user

\* C10: the prescriber_id of a row is the authenticated user of the request
\* that created it and never changes; a student's row starts pending, and a
\* step makes it approved only if that step is approve_prescription on that
\* row run by a teacher.
C10_StudentNeedsTeacher ==
    [][\A i \in DOMAIN Prescription' :
          /\ i \in DOMAIN Prescription =>
                /\ Prescription'[i].prescriber_id = Prescription[i].prescriber_id
                /\ (/\ IsStudent(Prescription[i].prescriber_id)
                    /\ Prescription[i].status # "approved"
                    /\ Prescription'[i].status = "approved")
                   => /\ request'.op = "approve_prescription"
                      /\ request'.id = i
                      /\ IsTeacher(request'.user)
                      /\ response'.ran
          /\ i \notin DOMAIN Prescription =>
                /\ is_authenticated(request'.user)
                /\ Prescription'[i].prescriber_id = request'.user
                /\ IsStudent(request'.user) => Prescription'[i].status # "approved"]_vars

\* C10 witness: a teacher's approve_prescription has approved the prescription
\* a student wrote.
C10_Witness ==
    /\ request.op = "approve_prescription"
    /\ IsTeacher(request.user)
    /\ response.ran
    /\ Len(Prescription) = 1
    /\ IsStudent(Prescription[1].prescriber_id)
    /\ Prescription[1].status = "approved"
\* The exact part of the computed value x is a/b (b > 0): both in lowest
\* terms, so numerators and denominators agree.
IsQuotient(x, a, b) ==
    /\ x.den > 0
    /\ x.num = a \div Gcd(Abs(a), b)
    /\ x.den = b \div Gcd(Abs(a), b)

\* C6: create_prescription stores the Prescription row with a first commit and
\* the items with a second.  When the items fail after the first commit (a
\* medication id that is no integer, or the second commit), the handler rolls
\* back: the new row stays, with the prescriber's id and the status of the
\* prescriber's role, no item of the request is stored, and the rows stored
\* before are as they were.  When both commits return, every item added
\* belongs to the new row.
C6_ItemsNotAtomic ==
    [][request'.op = "create_prescription" =>
          LET new == Len(Prescription) + 1 IN
          /\ response'.commits \in {0, 1, 2}
          /\ response'.commits = 0 => UNCHANGED db
          /\ response'.commits >= 1 =>
                /\ DOMAIN Prescription' = 1..new
                /\ \A i \in DOMAIN Prescription : Prescription'[i] = Prescription[i]
                /\ Prescription'[new].prescriber_id = request'.user
                /\ IsStudent(request'.user) => Prescription'[new].status = "pending"
                /\ IsTeacher(request'.user) => Prescription'[new].status = "approved"
          /\ response'.commits = 1 =>
                /\ response'.raised # "none"
                /\ response'.rollback
                /\ PrescriptionItem' = PrescriptionItem
                /\ \A k \in DOMAIN PrescriptionItem' :
                      PrescriptionItem'[k].prescription_id # new
          /\ response'.commits = 2 =>
                /\ response'.raised = "none"
                /\ Len(PrescriptionItem') >= Len(PrescriptionItem)
                /\ \A k \in DOMAIN PrescriptionItem' :
                      IF k \in DOMAIN PrescriptionItem
                      THEN PrescriptionItem'[k] = PrescriptionItem[k]
                      ELSE PrescriptionItem'[k].prescription_id = new]_vars

\* C6 witness: a student's request failed on a medication id after its first
\* commit; its row is stored, pending and without items, next to an earlier
\* prescription that keeps its item.
C6_Witness ==
    /\ request.op = "create_prescription"
    /\ IsStudent(request.user)
    /\ response.commits = 1
    /\ response.raised = "ValueError"
    /\ Len(Prescription) = 2
    /\ Prescription[2].status = "pending"
    /\ Len(PrescriptionItem) = 1
    /\ PrescriptionItem[1].prescription_id = 1

\* C7 (as claimed): whenever the write of add_patient, add_medication,
\* create_prescription, approve_prescription or add_clinical_note fails, the
\* handler has rolled back and flashed the exception text, and the exception
\* has not left the handler (no 500).  NotFound is the lookup failing, not
\* the write.
WriteRoutes == {"add_patient", "add_medication", "create_prescription",
                "approve_prescription", "add_clinical_note"}
C7_WriteFailuresHandled ==
    (request.op \in WriteRoutes /\ response.raised \notin {"none", "NotFound"})
    => /\ response.rollback
       /\ response.flash.category = "danger"
       /\ response.flash.detail = response.raised
       /\ response.code # 500

\* C8: an answered BMI request with a height other than 0 succeeds; the
\* unrounded value is weight / (height/100)^2, the result is that value
\* rounded to two decimals (in hundredths: no further than half a hundredth
\* from it), and the category is the one of the four whose range holds the
\* unrounded value; 70 kg at 175 cm give 22.86 and 'Normal weight'.
C8_BmiResult ==
    (/\ request.op = "calculate_bmi"
     /\ is_authenticated(request.user)
     /\ response # Idle
     /\ request.data.height # 0)
    => LET w == request.data.weight
           h == request.data.height
           v == response.body.value
           r == response.body.result
           c == response.body.category
       IN  /\ response.body.status = "success"
           /\ IsQuotient(v, w * 10000, h * h)
           /\ 2 * (r * h * h - 1000000 * w) <= h * h
           /\ 2 * (1000000 * w - r * h * h) <= h * h
           /\ c \in {"Underweight", "Normal weight", "Overweight", "Obese"}
           /\ c = "Underweight" <=> Lt(v, 185, 10)
           /\ c = "Normal weight" <=> (Ge(v, 185, 10) /\ Lt(v, 25, 1))
           /\ c = "Overweight" <=> (Ge(v, 25, 1) /\ Lt(v, 30, 1))
           /\ c = "Obese" <=> Ge(v, 30, 1)
           /\ (w = 70 /\ h = 175) => (r = 2286 /\ c = "Normal weight")

\* C8 witness: 56 kg at 174 cm is 18.4965: the result reads 18.5 and the
\* category, chosen on the unrounded value, is 'Underweight'.
C8_Witness ==
    /\ request.op = "calculate_bmi"
    /\ request.data.weight = 56 /\ request.data.height = 174
    /\ response.code = 200
    /\ response.body.result = 1850
    /\ response.body.category = "Underweight"

\* C9 (as claimed): an answered creatinine clearance request computes
\* (140 - age) * weight / (72 * scr) for a male patient, 0.85 times that for a
\* female patient, and applies the 0.85 only when the patient is female.
C9_FemaleMultiplierOnly ==
    (/\ request.op = "calculate_ccr"
     /\ is_authenticated(request.user)
     /\ response # Idle
     /\ request.data.scr # 0)
    => LET num == (140 - request.data.age) * request.data.weight * 10
           den == 72 * request.data.scr
           v == response.body.value
       IN  /\ response.body.status = "success"
           /\ request.data.gender = "female" => IsQuotient(v, 17 * num, 20 * den)
           /\ request.data.gender # "female" => IsQuotient(v, num, den)
====
